---------------------------- MODULE Spec2Model ----------------------------
(***************************************************************************)
(* A model of main.py of nico_ripser: to_phase (lines 9-32),               *)
(* plot_imaging_heatmap (34-76), plot_phase_and_heading (78-121) and       *)
(* plot_demo_file (123-208).                                               *)
(*                                                                         *)
(* Numbers.  The program computes in floating point; the model computes    *)
(* the same expressions exactly.                                           *)
(*  - In to_phase the R weights are unit vectors whose angles lie on the   *)
(*    grid of step pi/(R-1).  An angle is an integer count of that step, a *)
(*    unit vector is its direction in 0..2(R-1)-1 (np.exp(1j*x) has period *)
(*    2 pi), and a complex number is a formal integer combination of the   *)
(*    unit vectors: a function from directions to coefficients.            *)
(*  - In plot_phase_and_heading angles are integer counts of pi/4 and a    *)
(*    complex number is an element of the field Q(z), z = exp(i pi/4),     *)
(*    written <<a, b, c, d, q>> for (a + b z + c z^2 + d z^3)/q in lowest  *)
(*    terms with q > 0.  q = 0 stands for a non-finite value (nan, inf).   *)
(***************************************************************************)
EXTENDS Integers, Sequences, FiniteSets

VARIABLES
    pc,                \* position in the function being run
    dfof,              \* the (R, T) input matrix: dfof[r][t]
    circ,              \* to_phase's local circ
    phase,             \* the phase array (one object, shared by caller and callee)
    image_timestamps,  \* imaging time grid, length T
    vr_timestamps,     \* behavioral time grid, length V
    vr_heading,        \* heading on the behavioral grid, length V
    subtract_offset,   \* the flag of plot_phase_and_heading
    phase_interp,      \* local of plot_phase_and_heading (line 91)
    offset,            \* local of plot_phase_and_heading (line 96)
    plotted,           \* what the two ax.plot calls draw (lines 99-114)
    entry,             \* the arrays as they were when loaded or passed to the call
    lin,               \* the linearity harness: X, Y, a, b and the three results
    demo               \* plot_demo_file's other locals: vr_on_time, the two views, ...

vars == <<pc, dfof, circ, phase, image_timestamps, vr_timestamps, vr_heading,
          subtract_offset, phase_interp, offset, plotted, entry, lin, demo>>

None == <<>>

-----------------------------------------------------------------------------
(* Bounds of the model.                                                    *)

MaxR == 8          \* region counts 2..MaxR
MaxT == 2          \* imaging samples 1..MaxT
MaxVal == 1        \* fluorescence values 0..MaxVal
LinMaxR == 3       \* region counts 2..LinMaxR of the linearity harness
LinMaxT == 1       \* imaging samples 1..LinMaxT of the linearity harness
MaxScalar == 1     \* scalars -MaxScalar..MaxScalar of the linearity harness
MaxV == 2          \* behavioral samples 0..MaxV

-----------------------------------------------------------------------------
(* Sequences and matrices.                                                 *)

RECURSIVE SumSeq(_)
SumSeq(s) == IF s = <<>> THEN 0 ELSE Head(s) + SumSeq(Tail(s))

\* s[start::2] of Python, start 0-based.
EveryOther(s, start) ==
    [i \in 1..((Len(s) - start + 1) \div 2) |-> s[start + 2 * (i - 1) + 1]]

Rows(m) == Len(m)
Cols(m) == Len(m[1])
Column(m, t) == [r \in 1..Rows(m) |-> m[r][t]]

-----------------------------------------------------------------------------
(* to_phase, lines 26-32.                                                  *)

\* Directions of the grid of step pi/(R-1): 0 .. 2(R-1)-1.
Turn(R) == 2 * (R - 1)

\* np.linspace(-np.pi, np.pi, R), in steps of pi/(R-1): entry k (0-based) is
\* -pi + k * 2 pi/(R-1).
LinspaceHalf(R) == [k \in 1..R |-> (k - 1) - (R - 1)]

Linspace(R) == [k \in 1..R |-> (2 * (k - 1)) - (R - 1)]

\* np.exp(1j*x) for an angle of the grid: the unit vector's direction.
ExpGrid(x, R) == x % Turn(R)

\* line 26
CircOf(R) == [k \in 1..R |-> ExpGrid(Linspace(R)[k], R)]

ReorderOddFirst(c) == EveryOther(c, 1) \o EveryOther(c, 0)

\* line 30: circ[::2].tolist() + circ[1::2].tolist()
Reorder(c) == EveryOther(c, 0) \o EveryOther(c, 1)

MatMulRunning(c, arr) ==
    [t \in 1..Cols(arr) |->
        [d \in 0..(Turn(Len(c)) - 1) |->
            SumSeq([r \in 1..Len(c) |->
                IF c[r] = d THEN SumSeq([u \in 1..t |-> arr[r][u]]) ELSE 0])]]

MatMulMagnitude(c, arr) ==
    [t \in 1..Cols(arr) |->
        [d \in 0..(Turn(Len(c)) - 1) |->
            SumSeq([r \in 1..Len(c) |->
                IF c[r] = d THEN (IF arr[r][t] < 0 THEN -arr[r][t] ELSE arr[r][t])
                ELSE 0])]]

\* line 32: circ @ arr.  Entry t is the sum over r of circ[r] * arr[r][t], a
\* combination of unit vectors: the coefficient of direction d.
MatMul(c, arr) ==
    [t \in 1..Cols(arr) |->
        [d \in 0..(Turn(Len(c)) - 1) |->
            SumSeq([r \in 1..Len(c) |-> IF c[r] = d THEN arr[r][t] ELSE 0])]]

to_phase(arr) == MatMul(Reorder(CircOf(Rows(arr))), arr)

-----------------------------------------------------------------------------
(* Complex numbers of plot_phase_and_heading: Q(z), z = exp(i pi/4),       *)
(* z^4 = -1.  <<a, b, c, d, q>> is (a + b z + c z^2 + d z^3)/q.            *)

\* pi in steps of pi/4; a full turn is 2 * PI steps.
PI == 4

Abs(n) == IF n < 0 THEN -n ELSE n

RECURSIVE Gcd(_, _)
Gcd(m, n) == IF n = 0 THEN Abs(m) ELSE Gcd(n, m % Abs(n))

NonFinite == <<0, 0, 0, 0, 0>>
CZero == <<0, 0, 0, 0, 1>>
IsFinite(x) == x[5] # 0

\* Lowest terms, positive denominator.
Reduce(a, b, c, d, q) ==
    IF q = 0 THEN NonFinite
    ELSE LET g == Gcd(Gcd(Gcd(Gcd(a, b), c), d), q)
             s == IF q < 0 THEN -g ELSE g
         IN  <<a \div s, b \div s, c \div s, d \div s, q \div s>>

\* np.exp(1j*k) for an angle of k steps: z^k.
Exp(k) ==
    LET j == k % (2 * PI)
        s == IF j < PI THEN 1 ELSE -1
        i == j % PI
    IN  <<IF i = 0 THEN s ELSE 0, IF i = 1 THEN s ELSE 0,
          IF i = 2 THEN s ELSE 0, IF i = 3 THEN s ELSE 0, 1>>

CScale(m, x) == IF IsFinite(x) THEN Reduce(m * x[1], m * x[2], m * x[3], m * x[4], x[5])
                ELSE NonFinite

CAdd(x, y) ==
    IF ~IsFinite(x) \/ ~IsFinite(y) THEN NonFinite
    ELSE Reduce(x[1] * y[5] + y[1] * x[5], x[2] * y[5] + y[2] * x[5],
                x[3] * y[5] + y[3] * x[5], x[4] * y[5] + y[4] * x[5], x[5] * y[5])

CMul(x, y) ==
    IF ~IsFinite(x) \/ ~IsFinite(y) THEN NonFinite
    ELSE Reduce(
        x[1]*y[1] - x[2]*y[4] - x[3]*y[3] - x[4]*y[2],
        x[1]*y[2] + x[2]*y[1] - x[3]*y[4] - x[4]*y[3],
        x[1]*y[3] + x[2]*y[2] + x[3]*y[1] - x[4]*y[4],
        x[1]*y[4] + x[2]*y[3] + x[3]*y[2] + x[4]*y[1],
        x[5] * y[5])

\* Complex conjugate: z -> z^-1 = -z^3.
CConj(x) == <<x[1], -x[4], -x[3], -x[2], x[5]>>

\* The other embedding's conjugate of a real p + s sqrt(2) (sqrt(2) = z - z^3).
RConj(x) == <<x[1], -x[2], -x[3], -x[4], x[5]>>

\* 1/y for y finite and not zero: conj(y) * rconj(|y|^2) / N(y), where
\* |y|^2 = p + s sqrt(2) and N(y) = p^2 - 2 s^2 is a positive rational.
CInv(y) ==
    LET m == CMul(y, CConj(y))
        n == CMul(m, RConj(m))
        u == CMul(CConj(y), RConj(m))
    IN  Reduce(u[1] * n[5], u[2] * n[5], u[3] * n[5], u[4] * n[5], u[5] * n[1])

\* x / y of numpy: a zero or non-finite divisor gives a non-finite quotient.
CDiv(x, y) ==
    IF ~IsFinite(x) \/ ~IsFinite(y) \/ y = CZero THEN NonFinite
    ELSE CMul(x, CInv(y))

RECURSIVE CSum(_)
CSum(s) == IF s = <<>> THEN CZero ELSE CAdd(Head(s), CSum(Tail(s)))

\* np.mean of a complex array: the mean of no values is nan.
CMean(s) ==
    IF Len(s) = 0 THEN NonFinite
    ELSE LET t == CSum(s)
         IN  IF IsFinite(t) THEN Reduce(t[1], t[2], t[3], t[4], t[5] * Len(s))
             ELSE NonFinite

\* x is a positive real number: p + s sqrt(2) > 0, written <<p, s, 0, -s, q>>.
IsPosReal(x) ==
    /\ IsFinite(x)
    /\ x[3] = 0
    /\ x[4] = -x[2]
    /\ LET p == x[1]
           s == x[2]
       IN  \/ p > 0 /\ s >= 0
           \/ p >= 0 /\ s > 0
           \/ p > 0 /\ s < 0 /\ p * p > 2 * s * s
           \/ p < 0 /\ s > 0 /\ 2 * s * s > p * p

\* The angles np.angle can return on the grid: (-pi, pi].
Angles == (1 - PI)..PI

\* x * z^-k, k >= 0: each step turns a + b z + c z^2 + d z^3 into
\* b + c z + d z^2 - a z^3.
RECURSIVE TurnBack(_, _)
TurnBack(x, k) ==
    IF k = 0 THEN x ELSE TurnBack(<<x[2], x[3], x[4], -x[1], x[5]>>, k - 1)

\* x lies along the direction of k steps.
Along(x, k) == IsPosReal(TurnBack(x, k % (2 * PI)))

\* x is zero or points along a direction of the grid.
OnGrid(x) == x = CZero \/ \E k \in Angles : Along(x, k)

\* np.angle(x) in steps, for x on the grid; np.angle(0) is 0.
Angle(x) == IF x = CZero THEN 0 ELSE CHOOSE k \in Angles : Along(x, k)

\* np.unwrap(p) with its defaults (period 2 pi, discont pi).
Unwrap(p) ==
    LET dd(i) == p[i + 1] - p[i]
        dm(i) == ((dd(i) + PI) % (2 * PI)) - PI
        ddmod(i) == IF dm(i) = -PI /\ dd(i) > 0 THEN PI ELSE dm(i)
        ph_correct(i) == IF Abs(dd(i)) < PI THEN 0 ELSE ddmod(i) - dd(i)
    IN  [i \in 1..Len(p) |->
            p[i] + SumSeq([j \in 1..(i - 1) |-> ph_correct(j)])]

\* np.interp(x, xp, fp) at one point: the end values outside xp, else the
\* line through the two samples around x.  InterpIndex is the last sample
\* at or before x (0 when x is before them all).
InterpIndex(x, xp) == Cardinality({j \in 1..Len(xp) : xp[j] <= x})

InterpNum(x, xp, fp, j) == (fp[j + 1] - fp[j]) * (x - xp[j])

Interp1(x, xp, fp) ==
    LET j == InterpIndex(x, xp)
    IN  IF j = 0 THEN fp[1]
        ELSE IF j = Len(xp) THEN fp[Len(xp)]
        ELSE fp[j] + (InterpNum(x, xp, fp, j) \div (xp[j + 1] - xp[j]))

Interp(xs, xp, fp) == [v \in 1..Len(xs) |-> Interp1(xs[v], xp, fp)]

\* The interpolated angles are whole steps (the model represents no others).
InterpExact(xs, xp, fp) ==
    \A v \in 1..Len(xs) :
        LET j == InterpIndex(xs[v], xp)
        IN  (0 < j /\ j < Len(xp)) =>
                InterpNum(xs[v], xp, fp, j) % (xp[j + 1] - xp[j]) = 0


-----------------------------------------------------------------------------
(* Inputs: fluorescence matrices.  A column is constant (all ones and all  *)
(* zeros among them) or holds one value in one row and zero elsewhere.     *)

ColumnsOf(R) ==
    {[r \in 1..R |-> w] : w \in 0..MaxVal}
    \cup {[r \in 1..R |-> IF r = r0 THEN v ELSE 0] : r0 \in 1..R, v \in 1..MaxVal}

\* The (R, T) matrix with the given columns.
FromColumns(R, cols) == [r \in 1..R |-> [t \in 1..Len(cols) |-> cols[t][r]]]

MatricesOf(R, T) == {FromColumns(R, cols) : cols \in [1..T -> ColumnsOf(R)]}

-----------------------------------------------------------------------------
(* SpecPhase: one call of to_phase(dfof), statement by statement.          *)

InitPhase ==
    /\ pc = "tp_26"
    /\ \E R \in 2..MaxR, T \in 1..MaxT : dfof \in MatricesOf(R, T)
    /\ circ = None
    /\ phase = None
    /\ image_timestamps = None
    /\ vr_timestamps = None
    /\ vr_heading = None
    /\ subtract_offset = FALSE
    /\ phase_interp = None
    /\ offset = None
    /\ plotted = None
    /\ entry = None
    /\ lin = None
    /\ demo = None

\* line 26: circ = np.exp(1j*np.linspace(-np.pi, np.pi, arr.shape[0]))
TpLinspace ==
    /\ pc = "tp_26"
    /\ circ' = CircOf(Rows(dfof))
    /\ pc' = "tp_30"
    /\ UNCHANGED <<dfof, phase, image_timestamps, vr_timestamps, vr_heading,
                   subtract_offset, phase_interp, offset, plotted, entry, lin, demo>>

\* line 30: circ = np.array(circ[::2].tolist() + circ[1::2].tolist())
TpReorder ==
    /\ pc = "tp_30"
    /\ circ' = Reorder(circ)
    /\ pc' = "tp_32"
    /\ UNCHANGED <<dfof, phase, image_timestamps, vr_timestamps, vr_heading,
                   subtract_offset, phase_interp, offset, plotted, entry, lin, demo>>

\* line 32: return circ @ arr
TpMatMul ==
    /\ pc = "tp_32"
    /\ phase' = MatMul(circ, dfof)
    /\ pc' = "tp_done"
    /\ UNCHANGED <<dfof, circ, image_timestamps, vr_timestamps, vr_heading,
                   subtract_offset, phase_interp, offset, plotted, entry, lin, demo>>

NextPhase == TpLinspace \/ TpReorder \/ TpMatMul

SpecPhase == InitPhase /\ [][NextPhase]_vars


-----------------------------------------------------------------------------
(* Claims about to_phase (SpecPhase).                                      *)

\* The 0-based grid index the reordering gives to 0-based row r: the even
\* indices in increasing order, then the odd ones.
EvenOddIndex(R, r) ==
    LET h == (R + 1) \div 2
    IN  IF r < h THEN 2 * r ELSE 2 * (r - h) + 1

\* The direction of grid index k (0-based) among R angles over [-pi, pi].
GridDirection(R, k) == (2 * k - (R - 1)) % (2 * (R - 1))

Reordered == pc \in {"tp_32", "tp_done"}

\* C1: after the reordering, the weight of input row r is the unit vector of
\* grid index p(r), p = 0,2,4,...,1,3,5,...; p is a permutation of 0..R-1
\* and circ has exactly R entries.
C1_ReorderedWeights ==
    Reordered =>
        LET R == Rows(dfof)
        IN  /\ Len(circ) = R
            /\ \A r \in 0..(R - 1) :
                   circ[r + 1] = GridDirection(R, EvenOddIndex(R, r))
            /\ \A k \in 0..(R - 1) :
                   Cardinality({r \in 0..(R - 1) : EvenOddIndex(R, r) = k}) = 1

C1_Witness ==
    /\ pc = "tp_done"
    /\ Rows(dfof) = 8
    /\ circ = <<7, 11, 1, 5, 9, 13, 3, 7>>

\* C7: the output has one entry per column, equal columns give equal
\* entries, entry t is what the column alone gives, and a column of ones
\* gives the sum of the R reordered unit vectors.
C7_ColumnOnly ==
    pc = "tp_done" =>
        LET R == Rows(dfof)
            T == Cols(dfof)
        IN  /\ Len(phase) = T
            /\ \A t \in 1..T, u \in 1..T :
                   Column(dfof, t) = Column(dfof, u) => phase[t] = phase[u]
            /\ \A t \in 1..T :
                   phase[t] = MatMul(circ, FromColumns(R, <<Column(dfof, t)>>))[1]
            /\ \A t \in 1..T :
                   (\A r \in 1..R : dfof[r][t] = 1) =>
                       phase[t] = [d \in 0..(Turn(R) - 1) |->
                                      Cardinality({r \in 1..R : circ[r] = d})]

C7_Witness ==
    /\ pc = "tp_done"
    /\ Rows(dfof) = 8
    /\ Cols(dfof) = 2
    /\ \A r \in 1..8, t \in 1..2 : dfof[r][t] = 1
    /\ phase[1] = phase[2]
    /\ phase[1][7] = 2

\* Rows (0-based) whose weight direction is also the weight of another row.
SharedRows == {r \in 0..(Len(circ) - 1) :
                  \E q \in 0..(Len(circ) - 1) : q # r /\ circ[q + 1] = circ[r + 1]}

\* C9: grid index 0 and grid index R-1 are the same direction, the weights
\* cover R-1 directions, and after the reordering the two coincident weights
\* are on row 0 and on row R-1 (R even) or (R-1)/2 (R odd).
C9_CoincidentEnds ==
    LET R == Rows(dfof)
        dirs == {circ[r] : r \in 1..Len(circ)}
    IN  /\ pc = "tp_30" => circ[1] = circ[R] /\ Cardinality(dirs) = R - 1
        /\ Reordered =>
               /\ Cardinality(dirs) = R - 1
               /\ SharedRows = {0, IF R % 2 = 0 THEN R - 1 ELSE (R - 1) \div 2}

C9_Witness ==
    /\ pc = "tp_done"
    /\ Rows(dfof) = 7
    /\ SharedRows = {0, 3}


-----------------------------------------------------------------------------
(* SpecLinear: to_phase called on X, on Y and on a*X + b*Y.                *)

\* a*X + b*Y, entry by entry.
Combine(a, X, b, Y) ==
    [r \in 1..Rows(X) |-> [t \in 1..Cols(X) |-> a * X[r][t] + b * Y[r][t]]]

\* Matrices with one value in every column of one row and zero elsewhere.
SingleRowMatricesOf(R, T) ==
    {[r \in 1..R |-> [t \in 1..T |-> IF r = r0 THEN v ELSE 0]] :
        r0 \in 1..R, v \in 0..MaxVal}

InitLinear ==
    /\ pc = "lin_x"
    /\ \E R \in 2..LinMaxR, T \in 1..LinMaxT :
         \E X \in MatricesOf(R, T), Y \in SingleRowMatricesOf(R, T) :
           \E a \in (-MaxScalar)..MaxScalar, b \in (-MaxScalar)..MaxScalar :
              lin = [X |-> X, Y |-> Y, a |-> a, b |-> b,
                     fX |-> None, fY |-> None, fZ |-> None]
    /\ dfof = None
    /\ circ = None
    /\ phase = None
    /\ image_timestamps = None
    /\ vr_timestamps = None
    /\ vr_heading = None
    /\ subtract_offset = FALSE
    /\ phase_interp = None
    /\ offset = None
    /\ plotted = None
    /\ entry = None
    /\ demo = None

LinFrame == UNCHANGED <<dfof, circ, phase, image_timestamps, vr_timestamps,
                        vr_heading, subtract_offset, phase_interp, offset,
                        plotted, entry, demo>>

LinCallX ==
    /\ pc = "lin_x"
    /\ lin' = [lin EXCEPT !.fX = to_phase(lin.X)]
    /\ pc' = "lin_y"
    /\ LinFrame

LinCallY ==
    /\ pc = "lin_y"
    /\ lin' = [lin EXCEPT !.fY = to_phase(lin.Y)]
    /\ pc' = "lin_z"
    /\ LinFrame

LinCallCombined ==
    /\ pc = "lin_z"
    /\ lin' = [lin EXCEPT !.fZ = to_phase(Combine(lin.a, lin.X, lin.b, lin.Y))]
    /\ pc' = "lin_done"
    /\ LinFrame

NextLinear == LinCallX \/ LinCallY \/ LinCallCombined

SpecLinear == InitLinear /\ [][NextLinear]_vars

\* C6: to_phase(a*X + b*Y) = a*to_phase(X) + b*to_phase(Y) at every time
\* index (and so for every unit-vector coefficient).
C6_Linear ==
    pc = "lin_done" =>
        /\ Len(lin.fZ) = Cols(lin.X)
        /\ \A t \in 1..Cols(lin.X) :
               \A d \in DOMAIN lin.fZ[t] :
                   lin.fZ[t][d] = lin.a * lin.fX[t][d] + lin.b * lin.fY[t][d]

C6_Witness ==
    /\ pc = "lin_done"
    /\ lin.a = -1
    /\ lin.b = 1
    /\ lin.X # lin.Y
    /\ \E t \in 1..Cols(lin.X) : \E d \in DOMAIN lin.fZ[t] :
           lin.fZ[t][d] < 0 /\ lin.fX[t][d] > 0 /\ lin.fY[t][d] > 0


-----------------------------------------------------------------------------
(* plot_phase_and_heading, lines 78-121.                                   *)

\* line 89: if subtract_offset
OffsetBranchAlways(flag) == TRUE

OffsetBranch(flag) == flag

\* line 94: np.unwrap(np.angle(phase))
Unwrapped(ph) ==
    CHOOSE u \in {Unwrap(a) : a \in {[t \in 1..Len(ph) |-> Angle(ph[t])]}} : TRUE

\* lines 91-95: np.exp(1j*np.interp(vr_timestamps, image_timestamps,
\*                                  np.unwrap(np.angle(phase))))
InterpolatedAngle(ph, its, vts) ==
    CHOOSE a \in {Interp(vts, its, up) : up \in {Unwrapped(ph)}} : TRUE

PhaseInterp(ph, its, vts) ==
    CHOOSE p \in {[v \in 1..Len(vts) |-> Exp(a[v])] :
                     a \in {InterpolatedAngle(ph, its, vts)}} : TRUE

\* line 96: np.mean(phase_interp / np.exp(1j*vr_heading))
OffsetSum(pint, heading) ==
    CSum([v \in 1..Len(pint) |-> CDiv(pint[v], Exp(heading[v]))])

OffsetOf(pint, heading) ==
    CMean([v \in 1..Len(pint) |-> CDiv(pint[v], Exp(heading[v]))])

\* line 97: phase /= offset, the new contents of the array object.
IDivideRebind(arr, off) == arr

IDivideTimes(arr, off) == [t \in 1..Len(arr) |-> CMul(arr[t], off)]

IDivide(arr, off) == [t \in 1..Len(arr) |-> CDiv(arr[t], off)]

PphFrame == UNCHANGED <<dfof, circ, lin, demo, entry, subtract_offset>>

\* line 89, flag false: straight to the plots.
PphSkip ==
    /\ pc = "pph_89"
    /\ ~OffsetBranch(subtract_offset)
    /\ pc' = "pph_99"
    /\ UNCHANGED <<phase, image_timestamps, vr_timestamps, vr_heading,
                   phase_interp, offset, plotted>>
    /\ PphFrame

\* lines 89-95
PphInterp ==
    /\ pc = "pph_89"
    /\ OffsetBranch(subtract_offset)
    /\ phase_interp' = PhaseInterp(phase, image_timestamps, vr_timestamps)
    /\ pc' = "pph_96"
    /\ UNCHANGED <<phase, image_timestamps, vr_timestamps, vr_heading,
                   offset, plotted>>
    /\ PphFrame

\* line 96
PphOffset ==
    /\ pc = "pph_96"
    /\ offset' = OffsetOf(phase_interp, vr_heading)
    /\ pc' = "pph_97"
    /\ UNCHANGED <<phase, image_timestamps, vr_timestamps, vr_heading,
                   phase_interp, plotted>>
    /\ PphFrame

\* line 97
PphDivide ==
    /\ pc = "pph_97"
    /\ phase' = IDivide(phase, offset)
    /\ pc' = "pph_99"
    /\ UNCHANGED <<image_timestamps, vr_timestamps, vr_heading,
                   phase_interp, offset, plotted>>
    /\ PphFrame

\* lines 99-120: the two ax.plot calls read the arrays and draw; the second
\* draws np.angle of the array the name phase holds.
PphPlot ==
    /\ pc = "pph_99"
    /\ plotted' = [heading_x |-> vr_timestamps, heading_y |-> vr_heading,
                   phase_x |-> image_timestamps, angle_of |-> phase]
    /\ pc' = "pph_done"
    /\ UNCHANGED <<phase, image_timestamps, vr_timestamps, vr_heading,
                   phase_interp, offset>>
    /\ PphFrame

NextAlign == PphSkip \/ PphInterp \/ PphOffset \/ PphDivide \/ PphPlot

-----------------------------------------------------------------------------
(* Inputs of plot_phase_and_heading.                                       *)

\* Phase samples: magnitude 0 or 1 along a direction of the grid.
PhaseValues == {CZero} \cup {Exp(k) : k \in Angles}

\* A few phase samples of several magnitudes.
FewPhaseValues == {CZero, Exp(0), CScale(2, Exp(3)), Exp(PI)}

\* Phase signals of T samples; the longest ones start along one of two
\* directions.
PhaseSignalsOf(T) ==
    IF T <= 2 THEN [1..T -> PhaseValues]
    ELSE {<<x>> \o s : x \in {Exp(0), Exp(3)}, s \in [1..(T - 1) -> PhaseValues]}

\* Increasing sequences of n values of lo..hi.
RECURSIVE Increasing(_, _, _)
Increasing(n, lo, hi) ==
    IF n = 0 THEN {<<>>}
    ELSE UNION {{<<x>> \o s : s \in Increasing(n - 1, x + 1, hi)} : x \in lo..hi}

\* Behavioral time grids around an imaging grid: before it, on it, between
\* its samples and after it.
BehaviorGridsOf(its) ==
    UNION {Increasing(V, 0, its[Len(its)] + 1) : V \in 0..MaxV}

HeadingValues == {0, 1, PI}

\* Any heading, short phase signals.
InputsAnyHeading ==
    \E its \in {<<1>>, <<1, 3>>} :
      \E ph \in [1..Len(its) -> FewPhaseValues] :
        \E up \in {Unwrapped(ph)} :
          \E vts \in BehaviorGridsOf(its) :
            \E hd \in [1..Len(vts) -> HeadingValues], flag \in BOOLEAN :
              /\ InterpExact(vts, its, up)
              /\ phase = ph
              /\ image_timestamps = its
              /\ vr_timestamps = vts
              /\ vr_heading = hd
              /\ subtract_offset = flag

\* The heading is the interpolated phase angle plus a constant c.
InputsShiftedHeading ==
    \E its \in {<<1, 2>>, <<1, 3>>, <<1, 3, 4>>} :
      \E ph \in PhaseSignalsOf(Len(its)) :
        \E up \in {Unwrapped(ph)} :
          \E vts \in BehaviorGridsOf(its) :
            /\ InterpExact(vts, its, up)
            /\ \E a \in {Interp(vts, its, up)}, c \in 0..(2 * PI - 1) :
                  vr_heading = [v \in 1..Len(vts) |-> a[v] + c]
            /\ phase = ph
            /\ image_timestamps = its
            /\ vr_timestamps = vts
            /\ subtract_offset = TRUE

InitAlign ==
    /\ pc = "pph_89"
    /\ InputsAnyHeading \/ InputsShiftedHeading
    /\ entry = [phase |-> phase, image_timestamps |-> image_timestamps,
                vr_timestamps |-> vr_timestamps, vr_heading |-> vr_heading]
    /\ phase_interp = None
    /\ offset = None
    /\ plotted = None
    /\ dfof = None
    /\ circ = None
    /\ lin = None
    /\ demo = None

SpecAlign == InitAlign /\ [][NextAlign]_vars


-----------------------------------------------------------------------------
(* Claims about plot_phase_and_heading (SpecAlign).                        *)

COne == <<1, 0, 0, 0, 1>>

AfterOffsetBlock == pc \in {"pph_99", "pph_done"}

\* The correction would change this phase signal.
CorrectionMatters ==
    IDivide(entry.phase,
            OffsetOf(PhaseInterp(entry.phase, entry.image_timestamps,
                                 entry.vr_timestamps), entry.vr_heading))
        # entry.phase

\* C2: with subtract_offset = False the phase array is, element for
\* element, what it was when the call was made, at every point of the call.
C2_FlagFalseLeavesPhase ==
    ~subtract_offset => phase = entry.phase

C2_Witness ==
    /\ pc = "pph_done"
    /\ ~subtract_offset
    /\ Len(vr_timestamps) = 2
    /\ CorrectionMatters

\* The V ratios (re-wrapped interpolated phase over unit heading), each as
\* the unit vector of the angle difference, summed.
RatioSum ==
    CHOOSE s \in {CSum([v \in 1..Len(entry.vr_timestamps) |->
                            Exp(a[v] - entry.vr_heading[v])]) :
                     a \in {InterpolatedAngle(entry.phase, entry.image_timestamps,
                                              entry.vr_timestamps)}} : TRUE

\* C3: with subtract_offset = True and V > 0 the corrected phase has the
\* length of the input and every entry is the original entry divided by the
\* one offset, the mean of the V ratios, used as it is (not scaled to unit
\* magnitude): V * offset is the sum of the ratios and corrected[t] * offset
\* is original[t]; a zero offset leaves no finite entry.
C3_DividedByMeanOffset ==
    (AfterOffsetBlock /\ subtract_offset /\ Len(vr_timestamps) > 0) =>
        /\ Len(phase) = Len(entry.phase)
        /\ CScale(Len(vr_timestamps), offset) = RatioSum
        /\ offset # CZero =>
               \A t \in 1..Len(phase) : CMul(phase[t], offset) = entry.phase[t]
        /\ offset = CZero =>
               \A t \in 1..Len(phase) : ~IsFinite(phase[t])

\* An offset that is neither zero nor of unit magnitude divided a signal
\* with a nonzero sample.
C3_Witness ==
    /\ pc = "pph_done"
    /\ subtract_offset
    /\ Len(vr_timestamps) = 2
    /\ Len(phase) = 2
    /\ offset # CZero
    /\ CMul(offset, CConj(offset)) # COne
    /\ phase # entry.phase

\* C4: with subtract_offset = True the caller's phase array holds the
\* corrected values after line 97 (it is the array the plot reads), and the
\* two timestamp arrays and the heading array are as they were.
C4_PhaseOverwrittenInPlace ==
    (AfterOffsetBlock /\ subtract_offset) =>
        /\ phase = [t \in 1..Len(entry.phase) |-> CDiv(entry.phase[t], offset)]
        /\ pc = "pph_done" => plotted.angle_of = phase
        /\ image_timestamps = entry.image_timestamps
        /\ vr_timestamps = entry.vr_timestamps
        /\ vr_heading = entry.vr_heading

C4_Witness ==
    /\ pc = "pph_done"
    /\ subtract_offset
    /\ phase # entry.phase
    /\ \A t \in 1..Len(phase) : IsFinite(phase[t]) /\ phase[t] # CZero

\* C5: a call with subtract_offset = True and no behavioral sample does not
\* run to its end (it raises) and leaves the phase array as it was, every
\* entry finite.
C5_EmptyBehaviorRaises ==
    (subtract_offset /\ Len(entry.vr_timestamps) = 0) =>
        /\ pc # "pph_done"
        /\ phase = entry.phase
        /\ \A t \in 1..Len(phase) : IsFinite(phase[t])

\* The heading is the interpolated phase angle plus one constant angle.
HeadingIsShiftedPhase ==
    \E a \in {InterpolatedAngle(entry.phase, entry.image_timestamps,
                                entry.vr_timestamps)} :
        \E c \in 0..(2 * PI - 1) :
           \A v \in 1..Len(entry.vr_timestamps) :
               (entry.vr_heading[v] - a[v] - c) % (2 * PI) = 0

\* The corrected phase's angle, interpolated onto the behavioral grid, is
\* the heading modulo 2 pi at every behavioral sample.
AlignedWithHeading ==
    \/ Len(vr_timestamps) = 0
    \/ \E a \in {InterpolatedAngle(phase, image_timestamps, vr_timestamps)} :
           \A v \in 1..Len(vr_timestamps) :
               (a[v] - vr_heading[v]) % (2 * PI) = 0

\* C8 as stated: whenever the heading is the interpolated phase angle plus a
\* constant, the corrected phase is aligned with the heading.
C8_RoundTripAnyPhase ==
    (pc = "pph_done" /\ subtract_offset /\ HeadingIsShiftedPhase) =>
        AlignedWithHeading

\* No sample is zero and no two successive samples point in exactly
\* opposite directions.
NoDegenerateSample ==
    /\ \A t \in 1..Len(entry.phase) : entry.phase[t] # CZero
    /\ \A t \in 1..(Len(entry.phase) - 1) :
           (Angle(entry.phase[t + 1]) - Angle(entry.phase[t])) % (2 * PI) # PI

\* C8 amended: the same, for phase signals with no zero sample and no two
\* successive samples in exactly opposite directions.
C8_RoundTrip ==
    (pc = "pph_done" /\ subtract_offset /\ HeadingIsShiftedPhase
                     /\ NoDegenerateSample) =>
        AlignedWithHeading

\* Three samples with two jumps, a behavioral sample strictly between two
\* imaging samples of different angle, and a shift of three steps.
C8_Witness ==
    /\ pc = "pph_done"
    /\ subtract_offset
    /\ HeadingIsShiftedPhase
    /\ NoDegenerateSample
    /\ Len(phase) = 3
    /\ Len(vr_timestamps) = 2
    /\ vr_timestamps[1] = 2
    /\ entry.phase[1] # entry.phase[2]
    /\ entry.phase[2] # entry.phase[3]
    /\ offset = Exp(-3)
    /\ AlignedWithHeading


-----------------------------------------------------------------------------
(* plot_imaging_heatmap, lines 58-61: the pixel edges along the time axis, *)
(* computed on a float copy of the timestamps (time.astype(float)).  The   *)
(* values are exact in units of 1/(4 (T-1)^2); T >= 2.                     *)

EdgeScale(T) == 4 * (T - 1) * (T - 1)

PixelEdges(time) ==
    LET T == Len(time)
        K == EdgeScale(T)
        \* line 59: time[1:] -= np.diff(time)/2
        mid == [i \in 1..T |-> IF i = 1 THEN K * time[1]
                               ELSE (K \div 2) * (time[i] + time[i - 1])]
        \* line 60: time[0] -= np.mean(np.diff(time))/2
        first == mid[1] - ((mid[T] - mid[1]) \div (2 * (T - 1)))
        \* line 61: np.insert(time, 0, time[0] - np.mean(np.diff(time)))
        added == first - ((mid[T] - first) \div (T - 1))
    IN  <<added, first>> \o [i \in 1..(T - 1) |-> mid[i + 1]]

-----------------------------------------------------------------------------
(* plot_demo_file, lines 134-199.                                          *)

\* line 153, 154: the two conditions of np.where
PreVr(ts, onset) == ts < onset

DuringVrStrict(ts, onset) == ts > onset

DuringVr(ts, onset) == ts >= onset

\* np.where(mask)[0]: the indices (1-based here) where mask holds, ascending.
RECURSIVE IndicesFrom(_, _)
IndicesFrom(mask, i) ==
    IF i > Len(mask) THEN <<>>
    ELSE (IF mask[i] THEN <<i>> ELSE <<>>) \o IndicesFrom(mask, i + 1)

WherePre(its, onset) ==
    IndicesFrom([i \in 1..Len(its) |-> PreVr(its[i], onset)], 1)

WhereDuring(its, onset) ==
    IndicesFrom([i \in 1..Len(its) |-> DuringVr(its[i], onset)], 1)

\* np.take(m, idx, axis = -1): a new matrix of the chosen columns.
Take(m, idx) == [r \in 1..Rows(m) |-> [j \in 1..Len(idx) |-> m[r][idx[j]]]]

\* m.T[::step]: every step-th time sample of m, as points.
Points(m, step) ==
    [k \in 1..((Cols(m) + step - 1) \div step) |-> Column(m, (k - 1) * step + 1)]

\* A value of to_phase as a number of Q(z): the grid of step pi/(R-1) is
\* part of the grid of step pi/4 for R = 2, 3, 5.
ToComplex(coeff, R) ==
    CSum([i \in 1..Turn(R) |->
             CScale(coeff[i - 1], Exp((i - 1) * ((2 * PI) \div Turn(R))))])

DemoFrame == UNCHANGED <<circ, lin, subtract_offset>>

\* lines 152-155
DemoSplit ==
    /\ pc = "demo_152"
    /\ demo' = [demo EXCEPT
                  !.pre_idx = WherePre(image_timestamps, demo.vr_on_time),
                  !.during_idx = WhereDuring(image_timestamps, demo.vr_on_time),
                  !.dfof_pre_vr =
                      Take(dfof, WherePre(image_timestamps, demo.vr_on_time)),
                  !.dfof_during_vr =
                      Take(dfof, WhereDuring(image_timestamps, demo.vr_on_time))]
    /\ pc' = "demo_159"
    /\ UNCHANGED <<dfof, phase, image_timestamps, vr_timestamps, vr_heading,
                   phase_interp, offset, plotted, entry>>
    /\ DemoFrame

\* lines 159-163: plot_imaging_heatmap(image_timestamps, dfof, x[0])
DemoHeatmap ==
    /\ pc = "demo_159"
    /\ demo' = [demo EXCEPT !.heat_time = PixelEdges(image_timestamps),
                            !.heat_data = dfof]
    /\ pc' = "demo_165"
    /\ UNCHANGED <<dfof, phase, image_timestamps, vr_timestamps, vr_heading,
                   phase_interp, offset, plotted, entry>>
    /\ DemoFrame

\* line 165: phase = to_phase(dfof); line 167: the call of
\* plot_phase_and_heading starts.
DemoToPhase ==
    /\ pc = "demo_165"
    /\ phase' = [t \in 1..Cols(dfof) |-> ToComplex(to_phase(dfof)[t], Rows(dfof))]
    /\ entry' = [entry EXCEPT !.phase = phase']
    /\ pc' = "pph_89"
    /\ UNCHANGED <<dfof, image_timestamps, vr_timestamps, vr_heading,
                   phase_interp, offset, plotted, demo>>
    /\ DemoFrame

\* lines 176-199, after plot_phase_and_heading returned: the tick labels
\* (of the axes only) and the two calls of ripser.ripser, an external
\* routine whose results are not modelled; its inputs are.
DemoRipser ==
    /\ pc = "pph_done"
    /\ demo # None
    /\ demo' = [demo EXCEPT
                  !.r_pre = Points(demo.dfof_pre_vr, demo.downsample_by),
                  !.r_post = Points(demo.dfof_during_vr, demo.downsample_by)]
    /\ pc' = "demo_done"
    /\ UNCHANGED <<dfof, phase, image_timestamps, vr_timestamps, vr_heading,
                   phase_interp, offset, plotted, entry>>
    /\ DemoFrame

NextDemo ==
    \/ DemoSplit
    \/ DemoHeatmap
    \/ DemoToPhase
    \/ PphSkip
    \/ PphInterp
    \/ PphOffset
    \/ PphDivide
    \/ PphPlot
    \/ DemoRipser

\* Inputs: the arrays of the .npz file (lines 134-148).  Region counts whose
\* phase values lie on the grid of step pi/4; columns that are zero, all
\* ones or one in the first or the last row.
DemoRegionCounts == {2, 5}

DemoColumnsOf(R) ==
    {[r \in 1..R |-> 0], [r \in 1..R |-> 1]}
    \cup {[r \in 1..R |-> IF r = r0 THEN 1 ELSE 0] : r0 \in {1, R}}

DemoBehavior ==
    {[t |-> <<>>, h |-> <<>>], [t |-> <<2>>, h |-> <<1>>],
     [t |-> <<0, 3>>, h |-> <<PI, -2>>]}

InitDemo ==
    /\ pc = "demo_152"
    /\ \E R \in DemoRegionCounts, its \in {<<1, 3>>, <<1, 3, 4>>} :
         \E cols \in [1..Len(its) -> DemoColumnsOf(R)] :
           \E m \in {FromColumns(R, cols)} :
             \E ph \in {[t \in 1..Len(its) |-> ToComplex(to_phase(m)[t], R)]} :
               \E b \in DemoBehavior, on \in 0..(its[Len(its)] + 1),
                  flag \in BOOLEAN, step \in {1, 2} :
                 /\ \A t \in 1..Len(its) : OnGrid(ph[t])
                 /\ InterpExact(b.t, its, Unwrapped(ph))
                 /\ dfof = m
                 /\ image_timestamps = its
                 /\ vr_timestamps = b.t
                 /\ vr_heading = b.h
                 /\ subtract_offset = flag
                 /\ demo = [vr_on_time |-> on, downsample_by |-> step,
                            pre_idx |-> None, during_idx |-> None,
                            dfof_pre_vr |-> None, dfof_during_vr |-> None,
                            heat_time |-> None, heat_data |-> None,
                            r_pre |-> None, r_post |-> None]
    /\ entry = [dfof |-> dfof, image_timestamps |-> image_timestamps,
                vr_timestamps |-> vr_timestamps, vr_heading |-> vr_heading,
                phase |-> None]
    /\ circ = None
    /\ phase = None
    /\ phase_interp = None
    /\ offset = None
    /\ plotted = None
    /\ lin = None

SpecDemo == InitDemo /\ [][NextDemo]_vars


-----------------------------------------------------------------------------
(* Claim about plot_demo_file (SpecDemo).                                  *)

AfterSplit == pc # "demo_152"

\* How many of the first t samples satisfy the pre-VR (during-VR) test.
PreRank(t) ==
    Cardinality({u \in 1..t : entry.image_timestamps[u] < demo.vr_on_time})

DuringRank(t) ==
    Cardinality({u \in 1..t : entry.image_timestamps[u] >= demo.vr_on_time})

\* C10: after the split every imaging sample index is in exactly one of the
\* two index lists, by timestamp < onset (pre-VR) or >= onset (during-VR, the
\* onset itself included); each view holds the columns of the loaded matrix
\* in their original order; the views have T columns together; the matrix
\* and the two views stay as they are through the phase-offset correction
\* and to the end.
C10_SplitIsPartition ==
    AfterSplit =>
        LET T == Len(entry.image_timestamps)
            pre == demo.dfof_pre_vr
            during == demo.dfof_during_vr
        IN  /\ dfof = entry.dfof
            /\ image_timestamps = entry.image_timestamps
            /\ Cols(pre) + Cols(during) = T
            /\ Len(demo.pre_idx) = Cols(pre)
            /\ Len(demo.during_idx) = Cols(during)
            /\ \A t \in 1..T :
                   IF entry.image_timestamps[t] < demo.vr_on_time
                   THEN /\ demo.pre_idx[PreRank(t)] = t
                        /\ Column(pre, PreRank(t)) = Column(entry.dfof, t)
                        /\ \A j \in 1..Len(demo.during_idx) : demo.during_idx[j] # t
                   ELSE /\ demo.during_idx[DuringRank(t)] = t
                        /\ Column(during, DuringRank(t)) = Column(entry.dfof, t)
                        /\ \A j \in 1..Len(demo.pre_idx) : demo.pre_idx[j] # t

\* A sample at the onset itself, one before and one after, with the phase
\* corrected in place by then.
C10_Witness ==
    /\ pc = "demo_done"
    /\ subtract_offset
    /\ image_timestamps = <<1, 3, 4>>
    /\ demo.vr_on_time = 3
    /\ demo.pre_idx = <<1>>
    /\ demo.during_idx = <<2, 3>>
    /\ Column(dfof, 2) # Column(dfof, 3)
    /\ Column(demo.dfof_during_vr, 1) = Column(dfof, 2)
    /\ phase # entry.phase


=============================================================================
